---- MODULE Spec2Model ----
(***************************************************************************)
(* State-machine model of the CMS protocol client (app/services/cms.py):   *)
(* the session id held by CmsClient, the transport wrapper __post, the     *)
(* login/logout pair, the read, action and edit-config operations, the     *)
(* ONT listing and the recursive alarm listing.  The remote server and the *)
(* network are the environment: every reply and every transport failure is *)
(* chosen nondeterministically from small sets.                            *)
(***************************************************************************)
EXTENDS Integers, Sequences, FiniteSets, TLC

(* ---------------------------- bounds ----------------------------------- *)
\* most items the server puts on one page of a listing
MaxPageLen == 2
\* most requests the server lets one alarm listing grow to: it attaches the
\* more-data sentinel only to a page that is not the MaxPages-th of a call
MaxPages == 2
\* most runs of the periodic re-authentication task in one process life
MaxRuns == 2
\* most sessions the server grants in one process life
MaxSessions == 3
\* most envelopes whose message ids are followed
MaxEnvelopes == 3
\* widest message id followed, in bits (the program draws 2..31 bits)
MaxBits == 3

(* ---------------------------- values ----------------------------------- *)
\* Python's None; rendered as the text "None" inside an f-string
NoneVal == "<None>"
Str(v) == IF v = NoneVal THEN "None" ELSE v

\* session ids the server may hand out
SessionIds == {"sid-1", "sid-2"}
\* result codes the server may put in an auth-reply
ResultCodes == {"0", "1", "2"}
\* ont ids a caller may pass
OntIds == {"18331", "18332"}
\* the node every call addresses
NodeId == "rsvt-pon-1"
\* the GPON port the listing addresses
GponPort == [shelf |-> 1, card |-> 2, gponport |-> 3]

\* SOAP namespace URIs written in the payload templates
NsXmlSoap == "http://schemas.xmlsoap.org/soap/envelope/"
NsW3 == "www.w3.org/2003/05/soap-envelope"

(* ---------------------------- transport -------------------------------- *)
\* What requests.post / xmltodict.parse can raise inside the try block of
\* __post.  ConnectTimeout is a ConnectionError; ReadTimeout is not; a body
\* that is not XML makes xmltodict.parse raise expat's ExpatError
\* (ParsingInterrupted is raised only by an item callback, and none is passed).
TransportErrors ==
    {"MissingSchema", "InvalidURL", "ConnectionError", "ConnectTimeout",
     "ReadTimeout", "ExpatError"}

\* the exception classes each raised exception is an instance of
ExcClasses(e) ==
    CASE e = "ConnectTimeout" -> {"ConnectTimeout", "ConnectionError", "Timeout"}
      [] e = "ReadTimeout"    -> {"ReadTimeout", "Timeout"}
      [] OTHER                -> {e}

\* the except clauses of __post
PostCaught == {"MissingSchema", "ConnectionError", "ParsingInterrupted"}

\* the parsed tree of a failed request: the empty dict
EmptyDict == [root |-> "{}"]

\* a transport outcome: either an exception raised by the libraries or a
\* body that parsed, with the raw body containing "<more/>" or not
\* (page records the items the server wrote into the body, before parsing)
Failure(e) == [exc |-> e, resp |-> EmptyDict, more |-> FALSE, page |-> <<>>]
Delivered(tree, m, page) == [exc |-> "none", resp |-> tree, more |-> m, page |-> page]

\* __post: (data, "<more/>" in body) on success, [{}, False] for the caught
\* exceptions, the exception itself for every other one
post(outcome) ==
    IF outcome.exc = "none" THEN
        [raised |-> "none", resp |-> outcome.resp, more |-> outcome.more]
    ELSE IF ExcClasses(outcome.exc) \cap PostCaught # {} THEN
        [raised |-> "none", resp |-> EmptyDict, more |-> FALSE]
    ELSE
        [raised |-> outcome.exc, resp |-> EmptyDict, more |-> FALSE]

(* ---------------------------- reply trees ------------------------------ *)
\* The root element name xmltodict produces: the server's envelope with or
\* without the soapenv: prefix
Roots == {"Envelope", "soapenv:Envelope"}

\* auth-reply trees: ResultCode and SessionId leaves, each possibly missing
AuthReplies ==
    [root : Roots, ResultCode : ResultCodes \cup {NoneVal},
     SessionId : SessionIds \cup {NoneVal}]

\* pydash get(resp, "Envelope.Body.auth-reply.<leaf>")
getAuth(resp, leaf) ==
    IF resp = EmptyDict THEN NoneVal
    ELSE IF resp.root # "Envelope" THEN NoneVal
    ELSE IF leaf = "ResultCode" THEN resp.ResultCode
    ELSE resp.SessionId

\* The parsed value of a repeated element: xmltodict gives nothing for no
\* occurrence, the element itself for one, a list for several
XmlList(items) ==
    IF Len(items) = 0 THEN [type |-> "missing"]
    ELSE IF Len(items) = 1 THEN [type |-> "dict", val |-> items[1]]
    ELSE [type |-> "list", val |-> items]

\* all sequences over S of length at most n
SeqsUpTo(S, n) == UNION {[1..k -> S] : k \in 0..n}

\* rpc-reply trees answering an action or an edit-config: the rpc-reply node
\* is missing, empty (None), text, or a dict with some child keys
RpcReplyNodes ==
    {[type |-> "missing", keys |-> {}], [type |-> "NoneType", keys |-> {}],
     [type |-> "str", keys |-> {}]}
    \cup {[type |-> "dict", keys |-> k] : k \in SUBSET {"ok", "rpc-error"}}
RpcReplies == [root : Roots, rpc_reply : RpcReplyNodes]

\* get(resp, "soapenv:Envelope.soapenv:Body.rpc-reply")
getRpcReply(resp) ==
    IF resp = EmptyDict THEN [type |-> "NoneType", keys |-> {}]
    ELSE IF resp.root # "soapenv:Envelope" THEN [type |-> "NoneType", keys |-> {}]
    ELSE IF resp.rpc_reply.type = "missing" THEN [type |-> "NoneType", keys |-> {}]
    ELSE resp.rpc_reply

\* rpc-reply trees answering a read: the leaves of data.top.object
ReadReplies ==
    [root : Roots, admin : {"enabled", NoneVal}, serno : {"CXNK1", "true", NoneVal}]

\* get(resp, "soapenv:Envelope.soapenv:Body.rpc-reply.data.top.object.<leaf>")
getObjectLeaf(resp, leaf) ==
    IF resp = EmptyDict THEN NoneVal
    ELSE IF resp.root # "soapenv:Envelope" THEN NoneVal
    ELSE IF leaf = "admin" THEN resp.admin
    ELSE resp.serno

\* alarms the server may report: two well-formed ones and one whose object
\* node is missing
NoObject == [present |-> FALSE, type |-> "", id |-> <<>>]
Alarms ==
    {[object |-> [present |-> TRUE, type |-> "Ont", id |-> << <<"ont", "18331">> >>],
      alarm_type |-> "loss-of-pon"],
     [object |-> [present |-> TRUE, type |-> "GponPort",
                  id |-> << <<"shelf", "1">>, <<"card", "2">>, <<"gponport", "3">> >>],
      alarm_type |-> "low-rx-opt-pwr-ne"],
     [object |-> NoObject, alarm_type |-> "ntp-prov"]}
AlarmPages == SeqsUpTo(Alarms, MaxPageLen)
AlarmReply(p) == [root |-> "soapenv:Envelope", alarm |-> XmlList(p)]

\* get(resp, "...rpc-reply.action-reply.alarm", default=[]) followed by the
\* singleton wrap of a dict
getAlarms(resp) ==
    IF resp = EmptyDict THEN <<>>
    ELSE IF resp.root # "soapenv:Envelope" THEN <<>>
    ELSE IF resp.alarm.type = "missing" THEN <<>>
    ELSE IF resp.alarm.type = "dict" THEN <<resp.alarm.val>>
    ELSE resp.alarm.val

\* child objects the server may list under System: ONTs, and one child
\* without an ont key
Children == {[ont |-> "101"], [ont |-> "102"], [ont |-> "103"], [ont |-> NoneVal]}
ChildPages == SeqsUpTo(Children, MaxPageLen)
\* the reply to a listing: the children node is there (c) with the page's
\* child elements, or the object has no children node
ListReply(p, c) ==
    [root |-> "soapenv:Envelope", children |-> [present |-> c, child |-> XmlList(p)]]

(* ---------------------------- call results ----------------------------- *)
NoResult == [kind |-> "none", exc |-> "none", value |-> NoneVal]
Return(v) == [kind |-> "return", exc |-> "none", value |-> v]
Raise(e) == [kind |-> "raise", exc |-> e, value |-> NoneVal]

(* ---------------------------- envelopes -------------------------------- *)
CMS_USERNAME == "cms-user"
CMS_PASSWORD == "cms-pass"
Usernames == {CMS_USERNAME, "incorrect username"}
Passwords == {CMS_PASSWORD, "incorrect password"}

\* the first payload of get_node_alarms and a continuation payload
EmptyArgs == [cursor |-> FALSE]
CursorArgs(type, id, after) ==
    [cursor |-> TRUE, start_type |-> type, start_id |-> id, after_alarm |-> after]

\* the envelope an operation writes: the rpc element's attributes and the
\* arguments placed in the body
Envelope(operation, kind, ns, sid, args) ==
    [op |-> operation, kind |-> kind, ns |-> ns, sessionid |-> sid, args |-> args]

\* the operations that return "ok" in rpc-reply, with their request kind and
\* the namespace of their template
BoolOps ==
    {"reset_ont_performance", "reset_ont", "quarantine_ont", "release_ont",
     "disable_ont", "enable_ont"}
BoolOpKind(o) ==
    IF o \in {"reset_ont_performance", "reset_ont"} THEN "action" ELSE "edit-config"
BoolOpNs(o) ==
    IF o \in {"disable_ont", "enable_ont"} THEN NsW3 ELSE NsXmlSoap

(* ---------------------------- operations ------------------------------- *)
\* login with the rejection test weakened from "or" to "and"
loginAndTest(session, o) ==
    LET p == post(o)
        code == getAuth(p.resp, "ResultCode")
        sid == getAuth(p.resp, "SessionId")
    IN  IF p.raised # "none" THEN [result |-> Raise(p.raised), session |-> session]
        ELSE IF p.resp = EmptyDict THEN
            [result |-> Raise("CmsCommunicationFailure"), session |-> session]
        ELSE IF sid = NoneVal /\ code # "0" THEN
            [result |-> Raise("CmsAuthenticationFailure"), session |-> session]
        ELSE [result |-> Return(sid), session |-> sid]

\* login with the assignment to self.session_id moved above the test
loginStoreFirst(session, o) ==
    LET p == post(o)
        code == getAuth(p.resp, "ResultCode")
        sid == getAuth(p.resp, "SessionId")
    IN  IF p.raised # "none" THEN [result |-> Raise(p.raised), session |-> session]
        ELSE IF p.resp = EmptyDict THEN
            [result |-> Raise("CmsCommunicationFailure"), session |-> session]
        ELSE IF sid = NoneVal \/ code # "0" THEN
            [result |-> Raise("CmsAuthenticationFailure"), session |-> sid]
        ELSE [result |-> Return(sid), session |-> sid]

\* login: the result of the call and the session id the client holds after
\* it, given the session id before it and the transport outcome
login(session, o) ==
    LET p == post(o)
        code == getAuth(p.resp, "ResultCode")
        sid == getAuth(p.resp, "SessionId")
    IN  IF p.raised # "none" THEN [result |-> Raise(p.raised), session |-> session]
        ELSE IF p.resp = EmptyDict THEN
            [result |-> Raise("CmsCommunicationFailure"), session |-> session]
        ELSE IF sid = NoneVal \/ code # "0" THEN
            [result |-> Raise("CmsAuthenticationFailure"), session |-> session]
        ELSE [result |-> Return(sid), session |-> sid]

\* logout with the result-code test narrowed to the one code "1"
logoutCodeOne(session, o) ==
    LET p == post(o)
        code == getAuth(p.resp, "ResultCode")
    IN  IF p.raised # "none" THEN [result |-> Raise(p.raised), session |-> session]
        ELSE IF p.resp = EmptyDict THEN
            [result |-> Raise("CmsCommunicationFailure"), session |-> session]
        ELSE IF code = "1" THEN
            [result |-> Raise("CmsDeauthenticationFailure"), session |-> session]
        ELSE [result |-> Return(NoneVal), session |-> session]

\* logout that forgets the session id once the server has accepted
logoutClears(session, o) ==
    LET p == post(o)
        code == getAuth(p.resp, "ResultCode")
    IN  IF p.raised # "none" THEN [result |-> Raise(p.raised), session |-> session]
        ELSE IF p.resp = EmptyDict THEN
            [result |-> Raise("CmsCommunicationFailure"), session |-> session]
        ELSE IF code # "0" THEN
            [result |-> Raise("CmsDeauthenticationFailure"), session |-> session]
        ELSE [result |-> Return(NoneVal), session |-> NoneVal]

\* logout: as login; the session id is not assigned anywhere in the method
logout(session, o) ==
    LET p == post(o)
        code == getAuth(p.resp, "ResultCode")
    IN  IF p.raised # "none" THEN [result |-> Raise(p.raised), session |-> session]
        ELSE IF p.resp = EmptyDict THEN
            [result |-> Raise("CmsCommunicationFailure"), session |-> session]
        ELSE IF code # "0" THEN
            [result |-> Raise("CmsDeauthenticationFailure"), session |-> session]
        ELSE [result |-> Return(NoneVal), session |-> session]

\* the shared tail with success read as "no rpc-error" instead of "ok"
rpcBoolNoError(o) ==
    LET p == post(o)
        r == getRpcReply(p.resp)
    IN  IF p.raised # "none" THEN Raise(p.raised)
        ELSE IF r.type = "dict" THEN Return("rpc-error" \notin r.keys)
        ELSE Return(FALSE)

\* the tail shared by every action and edit-config operation:
\* isinstance(rpc-reply, dict) -> "ok" in rpc-reply, else False
rpcBool(o) ==
    LET p == post(o)
        r == getRpcReply(p.resp)
    IN  IF p.raised # "none" THEN Raise(p.raised)
        ELSE IF r.type = "dict" THEN Return("ok" \in r.keys)
        ELSE Return(FALSE)

\* the leaf of data.top.object each extracted field of get_ont's record is
\* read from
OntRecordPaths == [admin_state |-> "admin", serial_nr |-> "serno", battery_present |-> "serno"]

\* get_ont: the record built from the leaves of the reply (three of its
\* extracted fields; battery_present compares the serno leaf with "true")
get_ont(ont_id, o) ==
    LET p == post(o)
    IN  IF p.raised # "none" THEN Raise(p.raised)
        ELSE Return([parent_node |-> NodeId, id |-> ont_id,
                     admin_state |-> getObjectLeaf(p.resp, "admin"),
                     serial_nr |-> getObjectLeaf(p.resp, "serno"),
                     battery_present |-> (getObjectLeaf(p.resp, "serno") = "true")])

\* list_onts_on_gpon: one request; the more flag of __post is discarded
list_onts_on_gpon(o) ==
    LET p == post(o)
        absent == \/ p.resp = EmptyDict
                  \/ p.resp.root # "soapenv:Envelope"
                  \/ ~p.resp.children.present
        child == p.resp.children.child
        children == IF child.type = "list" THEN child.val
                    ELSE IF child.type = "dict" THEN <<child.val>>
                    ELSE <<[ont |-> NoneVal]>>
        ont_ids == SelectSeq(children, LAMBDA c : c.ont # NoneVal)
        ids == [i \in 1..Len(ont_ids) |-> ont_ids[i].ont]
    IN  IF p.raised # "none" THEN Raise(p.raised)
        ELSE IF absent THEN Return([onts |-> <<>>, count |-> -1])
        ELSE Return([onts |-> ids, count |-> Len(ids)])

\* get_node_alarms with the cursor taken from the first alarm of the page
alarmsFrameFirst(o) ==
    LET p == post(o)
        alarms == getAlarms(p.resp)
        first == alarms[1]
    IN  IF p.raised # "none" THEN [next |-> "raise", exc |-> p.raised, alarms |-> <<>>, after |-> EmptyArgs]
        ELSE IF ~p.more THEN [next |-> "return", exc |-> "none", alarms |-> alarms, after |-> EmptyArgs]
        ELSE IF alarms = <<>> THEN
            [next |-> "raise", exc |-> "IndexError", alarms |-> alarms, after |-> EmptyArgs]
        ELSE IF ~first.object.present THEN
            [next |-> "raise", exc |-> "KeyError", alarms |-> alarms, after |-> EmptyArgs]
        ELSE [next |-> "recurse", exc |-> "none", alarms |-> alarms,
              after |-> CursorArgs(first.object.type, first.object.id, first.alarm_type)]

\* get_node_alarms with the continuation guarded by "more and alarms"
alarmsFrameGuarded(o) ==
    LET p == post(o)
        alarms == getAlarms(p.resp)
        last == alarms[Len(alarms)]
    IN  IF p.raised # "none" THEN [next |-> "raise", exc |-> p.raised, alarms |-> <<>>, after |-> EmptyArgs]
        ELSE IF ~p.more \/ alarms = <<>> THEN
            [next |-> "return", exc |-> "none", alarms |-> alarms, after |-> EmptyArgs]
        ELSE IF ~last.object.present THEN
            [next |-> "raise", exc |-> "KeyError", alarms |-> alarms, after |-> EmptyArgs]
        ELSE [next |-> "recurse", exc |-> "none", alarms |-> alarms,
              after |-> CursorArgs(last.object.type, last.object.id, last.alarm_type)]

\* one invocation of get_node_alarms up to its recursive call: the alarms of
\* this page and either the final result of this frame, the exception it
\* raises, or the _payload_after it passes to the next invocation
alarmsFrame(o) ==
    LET p == post(o)
        alarms == getAlarms(p.resp)
        last == alarms[Len(alarms)]
    IN  IF p.raised # "none" THEN [next |-> "raise", exc |-> p.raised, alarms |-> <<>>, after |-> EmptyArgs]
        ELSE IF ~p.more THEN [next |-> "return", exc |-> "none", alarms |-> alarms, after |-> EmptyArgs]
        ELSE IF alarms = <<>> THEN
            [next |-> "raise", exc |-> "IndexError", alarms |-> alarms, after |-> EmptyArgs]
        ELSE IF ~last.object.present THEN
            [next |-> "raise", exc |-> "KeyError", alarms |-> alarms, after |-> EmptyArgs]
        ELSE [next |-> "recurse", exc |-> "none", alarms |-> alarms,
              after |-> CursorArgs(last.object.type, last.object.id, last.alarm_type)]

(* ---------------------------- state ------------------------------------ *)
VARIABLES
    session_id,     \* CmsClient.session_id
    pc,             \* "idle", or "alarms" while get_node_alarms is recursing
    op,             \* the operation called last
    old_session,    \* session_id when that call started
    sent,           \* the envelopes that call has handed to __post, in order
    recv,           \* the transport outcome of each of them
    result,         \* what the call returned or raised, once it is over
    acc,            \* alarms held by the suspended get_node_alarms frames
    payload_after,  \* _payload_after of the next get_node_alarms frame
    ever_logged_in, \* history: some login of this client has succeeded
    server_live,    \* server: the session ids that are live
    granted,        \* server: how many sessions it has granted
    obtained,       \* history: the session ids a login returned to the client
    logout_sent,    \* history: the session ids reauthenticate_cms sent a logout for
    task,           \* position of the repeating task
    runs,           \* runs of reauthenticate_cms started
    run,            \* what the current or last run did
    started,        \* the startup event has completed
    stopped,        \* the shutdown handler has run
    fg,             \* the last envelope a foreground call built
    shutdown,       \* the logout the shutdown handler sent
    mids,           \* the message ids of the envelopes built, in order
    route,          \* the last request a route handler served, and how
    env_call,       \* the last get_env call and how it ended
    ont_general     \* the last OntGeneral construction and how it ended

callVars == <<pc, op, old_session, sent, recv, result, acc, payload_after, ever_logged_in>>
lifeVars == <<server_live, granted, obtained, logout_sent, task, runs, run, started,
              stopped, fg, shutdown>>
appVars == <<route, env_call, ont_general>>
vars == <<session_id, callVars, lifeVars, mids, appVars>>

\* the outcomes the network and the server can produce for an auth request,
\* an action or edit-config, a read, a listing page and an alarm page
AuthOutcomes ==
    {Failure(e) : e \in TransportErrors} \cup {Delivered(t, FALSE, <<>>) : t \in AuthReplies}
RpcOutcomes ==
    {Failure(e) : e \in TransportErrors} \cup {Delivered(t, FALSE, <<>>) : t \in RpcReplies}
ReadOutcomes ==
    {Failure(e) : e \in TransportErrors} \cup {Delivered(t, FALSE, <<>>) : t \in ReadReplies}
ListOutcomes ==
    {Failure(e) : e \in TransportErrors}
    \cup {Delivered(ListReply(p, TRUE), m, p) : p \in ChildPages, m \in BOOLEAN}
    \cup {Delivered(ListReply(<<>>, FALSE), FALSE, <<>>)}
AlarmOutcomes(n) ==
    {Failure(e) : e \in TransportErrors}
    \cup {Delivered(AlarmReply(p), m, p) :
            p \in AlarmPages, m \in {b \in BOOLEAN : b => n < MaxPages}}

\* no run of reauthenticate_cms yet, and no envelope yet
NoRun == [logout |-> "none", login_attempted |-> FALSE, login |-> "none", out |-> "none",
          done |-> FALSE]
NoEnvelope == [built |-> FALSE, sessionid |-> "n/a", absent |-> FALSE, logged_out |-> FALSE]
\* no request served, no get_env call and no record constructed yet
NoRoute == [name |-> "none", interval |-> "none", count |-> 0, called |-> FALSE,
            client |-> NoResult, status |-> "none"]
NoEnvCall == [name |-> "none", global_env |-> NoneVal, local_env |-> NoneVal,
              prefer_local |-> TRUE, result |-> NoResult]
NoOntGeneral == [built |-> FALSE]

Init ==
    /\ session_id = NoneVal
    /\ pc = "idle"
    /\ op = "none"
    /\ old_session = NoneVal
    /\ sent = <<>>
    /\ recv = <<>>
    /\ result = NoResult
    /\ acc = <<>>
    /\ payload_after = EmptyArgs
    /\ ever_logged_in = FALSE
    /\ server_live = {}
    /\ granted = 0
    /\ obtained = {}
    /\ logout_sent = {}
    /\ task = "unscheduled"
    /\ runs = 0
    /\ run = NoRun
    /\ started = FALSE
    /\ stopped = FALSE
    /\ fg = NoEnvelope
    /\ shutdown = NoEnvelope
    /\ mids = <<>>
    /\ route = NoRoute
    /\ env_call = NoEnvCall
    /\ ont_general = NoOntGeneral

\* a call that posts one envelope and is over when __post comes back
OneShot(operation, env, o, res, sid) ==
    /\ pc = "idle"
    /\ op' = operation
    /\ old_session' = session_id
    /\ sent' = <<env>>
    /\ recv' = <<o>>
    /\ result' = res
    /\ session_id' = sid
    /\ ever_logged_in' = (ever_logged_in \/ (operation = "login" /\ res.kind = "return"))
    /\ UNCHANGED <<pc, acc, payload_after, lifeVars, mids, appVars>>

Login ==
    \E u \in Usernames, pw \in Passwords, o \in AuthOutcomes :
        LET r == login(session_id, o)
        IN  OneShot("login",
                    Envelope("login", "auth", NsXmlSoap, "n/a",
                             [username |-> u, password |-> pw]),
                    o, r.result, r.session)

Logout ==
    \E o \in AuthOutcomes :
        LET r == logout(session_id, o)
        IN  OneShot("logout",
                    Envelope("logout", "auth", NsXmlSoap, Str(session_id),
                             [username |-> CMS_USERNAME]),
                    o, r.result, r.session)

BoolOp ==
    \E b \in BoolOps, id \in OntIds, o \in RpcOutcomes :
        OneShot(b, Envelope(b, BoolOpKind(b), BoolOpNs(b), Str(session_id), [ont |-> id]),
                o, rpcBool(o), session_id)

GetOnt ==
    \E id \in OntIds, o \in ReadOutcomes :
        OneShot("get_ont",
                Envelope("get_ont", "get-config", NsW3, Str(session_id), [ont |-> id]),
                o, get_ont(id, o), session_id)

ListOntsOnGpon ==
    \E o \in ListOutcomes :
        OneShot("list_onts_on_gpon",
                Envelope("list_onts_on_gpon", "get-config", NsXmlSoap, Str(session_id),
                         GponPort),
                o, list_onts_on_gpon(o), session_id)

\* one invocation of get_node_alarms: post the payload carrying after, then
\* recurse, or finish the whole call (the suspended frames prepend their
\* alarms to the returned list; an exception passes through them).
\* posted, got and held are the envelopes, outcomes and alarms of the frames
\* above this one.
AlarmsFrame(posted, got, held, after, o) ==
    LET f == alarmsFrame(o)
    IN  /\ sent' = Append(posted, Envelope("get_node_alarms", "action", NsW3,
                                           Str(session_id), after))
        /\ recv' = Append(got, o)
        /\ IF f.next = "recurse"
           THEN /\ pc' = "alarms"
                /\ acc' = held \o f.alarms
                /\ payload_after' = f.after
                /\ result' = NoResult
           ELSE /\ pc' = "idle"
                /\ acc' = <<>>
                /\ payload_after' = EmptyArgs
                /\ result' = IF f.next = "return" THEN Return(held \o f.alarms)
                                                  ELSE Raise(f.exc)
        /\ UNCHANGED <<session_id, ever_logged_in, lifeVars, mids, appVars>>

GetNodeAlarms ==
    /\ pc = "idle"
    /\ op' = "get_node_alarms"
    /\ old_session' = session_id
    /\ \E o \in AlarmOutcomes(1) : AlarmsFrame(<<>>, <<>>, <<>>, EmptyArgs, o)

GetNodeAlarmsRecurse ==
    /\ pc = "alarms"
    /\ \E o \in AlarmOutcomes(Len(sent) + 1) : AlarmsFrame(sent, recv, acc, payload_after, o)
    /\ UNCHANGED <<op, old_session>>

Next ==
    \/ Login
    \/ Logout
    \/ BoolOp
    \/ GetOnt
    \/ ListOntsOnGpon
    \/ GetNodeAlarms
    \/ GetNodeAlarmsRecurse

Spec == Init /\ [][Next]_vars

\* a call of get_node_alarms runs on: the recursive call is made as soon as
\* the frame above has built its payload
SpecTermination == Init /\ [][Next]_vars /\ WF_vars(GetNodeAlarmsRecurse)

(* ---------------------------- process life ----------------------------- *)
\* The hosting application (app/main.py): the startup event schedules the
\* repeating task reauthenticate_cms, requests are served while it runs in
\* the thread pool, and the shutdown handler logs out.  The server keeps the
\* set of live sessions; the network refuses a connection, loses a reply or
\* delivers it.

\* the session id the server grants as its n-th
Sid(n) == "sid-" \o ToString(n)

\* what becomes of one auth request on the network: the connection is
\* refused (the server never sees the request), the reply is lost after the
\* server has acted (read timeout), or the reply is delivered
Fates == {"refused", "reply_lost", "delivered"}

\* the server's answer to a logout carrying the session id text sid: the
\* session is ended when it is live, and refused otherwise
serverLogout(live, sid) ==
    IF sid \in live THEN [live |-> live \ {sid}, code |-> "0"]
    ELSE [live |-> live, code |-> "1"]

\* the server's answer to a login: a session id it has never granted
\* before, or a refusal
serverLogin(live, n, accept) ==
    IF accept /\ n < MaxSessions
    THEN [live |-> live \cup {Sid(n + 1)}, granted |-> n + 1, code |-> "0", sid |-> Sid(n + 1)]
    ELSE [live |-> live, granted |-> n, code |-> "2", sid |-> NoneVal]

\* the transport outcome the client sees for an auth request with that fate
\* whose reply, if any, carries code and sid
AuthOutcome(fate, code, sid) ==
    IF fate = "refused" THEN Failure("ConnectionError")
    ELSE IF fate = "reply_lost" THEN Failure("ReadTimeout")
    ELSE Delivered([root |-> "Envelope", ResultCode |-> code, SessionId |-> sid], FALSE, <<>>)

\* the except clause of reauthenticate_cms widened to every exception
reauthSwallowsAll(exc) == TRUE

\* the except clause of reauthenticate_cms around cms_client.logout()
reauthSwallows(exc) == exc = "CmsDeauthenticationFailure"

\* how a call ended, as one word: "ok" or the exception's name
Ended(res) == IF res.kind = "return" THEN "ok" ELSE res.exc

\* the startup event: repeat_every schedules the loop and returns
Startup ==
    /\ ~started
    /\ started' = TRUE
    /\ task' = "ready"
    /\ UNCHANGED <<session_id, callVars, server_live, granted, obtained, logout_sent,
                   runs, run, stopped, fg, shutdown, mids, appVars>>

\* reauthenticate_cms, first statement: cms_client.logout() inside the try
ReauthLogout ==
    /\ task = "ready" /\ ~stopped /\ runs < MaxRuns
    /\ \E fate \in Fates :
        LET srv == IF fate = "refused" THEN [live |-> server_live, code |-> "n/a"]
                   ELSE serverLogout(server_live, Str(session_id))
            r == logout(session_id, AuthOutcome(fate, srv.code, NoneVal))
            goes_on == r.result.kind = "return" \/ reauthSwallows(r.result.exc)
        IN  /\ server_live' = srv.live
            /\ session_id' = r.session
            /\ logout_sent' = logout_sent \cup {Str(session_id)}
            /\ runs' = runs + 1
            /\ run' = [logout |-> Ended(r.result), login_attempted |-> FALSE,
                       login |-> "none",
                       out |-> IF goes_on THEN "none" ELSE r.result.exc,
                       done |-> ~goes_on]
            /\ task' = IF goes_on THEN "login" ELSE "sleep"
    /\ UNCHANGED <<callVars, granted, obtained, started, stopped, fg, shutdown, mids, appVars>>

\* reauthenticate_cms, last statement: cms_client.login()
ReauthLogin ==
    /\ task = "login"
    /\ \E fate \in Fates, accept \in BOOLEAN :
        LET srv == IF fate = "refused"
                   THEN [live |-> server_live, granted |-> granted, code |-> "n/a",
                         sid |-> NoneVal]
                   ELSE serverLogin(server_live, granted, accept)
            r == login(session_id, AuthOutcome(fate, srv.code, srv.sid))
        IN  /\ server_live' = srv.live
            /\ granted' = srv.granted
            /\ session_id' = r.session
            /\ obtained' = IF r.result.kind = "return" THEN obtained \cup {r.result.value}
                           ELSE obtained
            /\ run' = [run EXCEPT !.login_attempted = TRUE, !.login = Ended(r.result),
                                  !.out = r.result.exc, !.done = TRUE]
            /\ task' = "sleep"
    /\ UNCHANGED <<callVars, logout_sent, runs, started, stopped, fg, shutdown, mids, appVars>>

\* the loop of repeat_every: the exception of a run is logged and dropped,
\* and the next run starts after the sleep
Tick ==
    /\ task = "sleep" /\ ~stopped
    /\ task' = "ready"
    /\ UNCHANGED <<session_id, callVars, server_live, granted, obtained, logout_sent,
                   runs, run, started, stopped, fg, shutdown, mids, appVars>>

\* a request handler formats self.session_id into the envelope of a read
Foreground ==
    /\ started /\ ~stopped
    /\ fg' = [built |-> TRUE, sessionid |-> Str(session_id),
              absent |-> (session_id = NoneVal),
              logged_out |-> (Str(session_id) \in logout_sent)]
    /\ UNCHANGED <<session_id, callVars, server_live, granted, obtained, logout_sent,
                   task, runs, run, started, stopped, shutdown, mids, appVars>>

\* the server ends a session on its own (idle timeout)
ServerExpire ==
    /\ \E s \in server_live : server_live' = server_live \ {s}
    /\ UNCHANGED <<session_id, callVars, granted, obtained, logout_sent, task, runs, run,
                   started, stopped, fg, shutdown, mids, appVars>>

\* app_shutdown: cms_client.logout()
AppShutdown ==
    /\ started /\ ~stopped
    /\ \E fate \in Fates :
        LET srv == IF fate = "refused" THEN [live |-> server_live, code |-> "n/a"]
                   ELSE serverLogout(server_live, Str(session_id))
            r == logout(session_id, AuthOutcome(fate, srv.code, NoneVal))
        IN  /\ server_live' = srv.live
            /\ session_id' = r.session
            /\ shutdown' = [built |-> TRUE, sessionid |-> Str(session_id),
                            absent |-> (session_id = NoneVal),
                            logged_out |-> (Str(session_id) \in logout_sent)]
    /\ stopped' = TRUE
    /\ UNCHANGED <<callVars, granted, obtained, logout_sent, task, runs, run, started,
                   fg, mids, appVars>>

NextLife ==
    \/ Startup
    \/ ReauthLogout
    \/ ReauthLogin
    \/ Tick
    \/ Foreground
    \/ ServerExpire
    \/ AppShutdown

SpecLife == Init /\ [][NextLife]_vars

(* ---------------------------- message ids ------------------------------ *)
\* the values the message_id property can return: the decimal text of
\* random.getrandbits(k) for a k drawn from 2 up to the widest followed
MessageIds == {ToString(n) : n \in UNION {0..(2^k - 1) : k \in 2..MaxBits}}

\* an operation formats the envelope of its request, the first of a call
BuildEnvelope ==
    /\ Len(mids) < MaxEnvelopes
    /\ \E id \in MessageIds : mids' = Append(mids, [message_id |-> id, page |-> 1])
    /\ UNCHANGED <<session_id, callVars, lifeVars, appVars>>

\* get_node_alarms calls itself for the next page and formats its payload
\* again
BuildPageEnvelope ==
    /\ Len(mids) \in 1..(MaxEnvelopes - 1)
    /\ mids[Len(mids)].page < MaxPages
    /\ \E id \in MessageIds :
        mids' = Append(mids, [message_id |-> id, page |-> mids[Len(mids)].page + 1])
    /\ UNCHANGED <<session_id, callVars, lifeVars, appVars>>

NextIds ==
    \/ BuildEnvelope
    \/ BuildPageEnvelope

SpecIds == Init /\ [][NextIds]_vars

(* ---------------------------- port record ------------------------------ *)
\* Python values handed to the OntPort constructor, with their type
PyNone == [type |-> "NoneType", val |-> "None"]
PyStr(text) == [type |-> "str", val |-> text]
PyBool(b) == [type |-> "bool", val |-> IF b THEN "True" ELSE "False"]

\* the texts the server may write in a boolean leaf, or no leaf at all
BoolLeaves == {"true", "false", "TRUE", NoneVal}
\* the port numbers a caller may pass
PortNrs == {1, 2}

\* rpc-reply trees answering get_ont_port: leaves of data.top.object
PortReplies ==
    [root : Roots, admin : {"enabled", NoneVal}, disable_on_batt : BoolLeaves,
     ppte_power_control : BoolLeaves]
PortOutcomes ==
    {Failure(e) : e \in TransportErrors} \cup {Delivered(t, FALSE, <<>>) : t \in PortReplies}

\* get(resp, "soapenv:Envelope.soapenv:Body.rpc-reply.data.top.object.<leaf>")
\* on a port reply: the leaf's text, or None when a node of the path is missing
getPortLeaf(resp, leaf) ==
    IF resp = EmptyDict THEN NoneVal
    ELSE IF resp.root # "soapenv:Envelope" THEN NoneVal
    ELSE IF leaf = "admin" THEN resp.admin
    ELSE IF leaf = "disable-on-batt" THEN resp.disable_on_batt
    ELSE resp.ppte_power_control

\* the value of a field that takes the result of get(...) as it is
Extracted(leaf) == IF leaf = NoneVal THEN PyNone ELSE PyStr(leaf)

\* get_ont_port: the record built from the leaves of the reply (three of
\* its extracted fields: a text, a boolean compared with "true" and the
\* boolean compared with "false")
get_ont_port(ont_id, o) ==
    LET p == post(o)
    IN  IF p.raised # "none" THEN Raise(p.raised)
        ELSE Return([parent_node |-> PyStr(NodeId), id |-> PyStr(ont_id),
                     admin |-> Extracted(getPortLeaf(p.resp, "admin")),
                     disable_on_battery |->
                         PyBool(getPortLeaf(p.resp, "disable-on-batt") = "true"),
                     ppte_power_control |->
                         PyBool(getPortLeaf(p.resp, "ppte-power-control") = "false")])

GetOntPort ==
    \E id \in OntIds, nr \in PortNrs, o \in PortOutcomes :
        OneShot("get_ont_port",
                Envelope("get_ont_port", "get-config", NsW3, Str(session_id),
                         [ont |-> id, ontslot |-> 3, ontethge |-> nr]),
                o, get_ont_port(id, o), session_id)

\* the shelf, card and interface numbers a caller may pass
XdslKeys == [shelf : {1, 2}, card : {1, 2}, interface : {1, 2}]

\* rpc-reply trees answering the xdsl reads: one leaf of data.top.object
XdslReplies == [root : Roots, leaf : {"enabled", NoneVal}]
XdslOutcomes ==
    {Failure(e) : e \in TransportErrors} \cup {Delivered(t, FALSE, <<>>) : t \in XdslReplies}
getXdslLeaf(resp) ==
    IF resp = EmptyDict THEN NoneVal
    ELSE IF resp.root # "soapenv:Envelope" THEN NoneVal
    ELSE resp.leaf

\* the <id> element each method writes under <type>DslPort</type>
xdslPortSelector(k) == [shelf |-> k.shelf, card |-> k.card, dslport |-> k.interface]
xdslStatusSelector(k) == [shelf |-> 1, card |-> 1, dslport |-> 1]

\* get_xdsl_port and get_xdsl_status: the record's key fields are the
\* arguments; one extracted field each (admin, op-stat)
get_xdsl_port(k, o) ==
    LET p == post(o)
    IN  IF p.raised # "none" THEN Raise(p.raised)
        ELSE Return([parent_node |-> NodeId, shelf |-> k.shelf, card |-> k.card,
                     interface |-> k.interface, leaf |-> getXdslLeaf(p.resp)])
get_xdsl_status(k, o) ==
    LET p == post(o)
    IN  IF p.raised # "none" THEN Raise(p.raised)
        ELSE Return([parent_node |-> NodeId, shelf |-> k.shelf, card |-> k.card,
                     interface |-> k.interface, leaf |-> getXdslLeaf(p.resp)])

GetXdslPort ==
    \E k \in XdslKeys, o \in XdslOutcomes :
        OneShot("get_xdsl_port",
                Envelope("get_xdsl_port", "get-config", NsXmlSoap, Str(session_id),
                         xdslPortSelector(k)),
                o, get_xdsl_port(k, o), session_id)

GetXdslStatus ==
    \E k \in XdslKeys, o \in XdslOutcomes :
        OneShot("get_xdsl_status",
                Envelope("get_xdsl_status", "get", NsXmlSoap, Str(session_id),
                         xdslStatusSelector(k)),
                o, get_xdsl_status(k, o), session_id)

\* the client logs in and reads records
NextFields ==
    \/ Login
    \/ GetOnt
    \/ GetOntPort
    \/ GetXdslPort
    \/ GetXdslStatus

SpecFields == Init /\ [][NextFields]_vars

(* ---------------------------- routes ----------------------------------- *)
\* The route handlers of app/routes: each takes the request's parameters,
\* may call one method of the client held in app.state.cms, and answers.

\* the performance-bin routes of routes/v1/cms.py
PerfRoutes ==
    {"get_ont_errors", "clear_ont_errors", "get_xdsl_port_performance_eth",
     "clear_xdsl_port_performance_eth", "get_xdsl_port_performance_dsl",
     "clear_xdsl_port_performance_dsl"}
\* routes that pass the client's result on without a try block, and routes
\* whose body is one try block with "except Exception"
PlainRoutes == {"get_node_alarms", "detect_rogues"}
SmartRoutes == {"smart_enable_bid", "smart_disable_bid", "smart_get_general"}

\* query parameters a request may carry
Intervals == {"1-day", "15-min", "1-hour", "1-Day"}
Counts == {0, 1, 8, 9, 96, 97}

\* how the client call of a route can end: a value, a success flag, or an
\* exception of app/models/exceptions.py or of the requests library
ClientExceptions ==
    {"CmsAuthenticationFailure", "CmsDeauthenticationFailure", "CmsCommunicationFailure",
     "ReadTimeout"}
ClientResults == {Return(TRUE), Return(FALSE)} \cup {Raise(e) : e \in ClientExceptions}

\* the interval checks with the cap of the 15-min interval used for both
validateBinsOneCap(interval, count) ==
    IF interval \notin {"1-day", "15-min"} THEN "422"
    ELSE IF interval = "1-day" /\ count > 96 THEN "422"
    ELSE IF interval = "15-min" /\ count > 96 THEN "422"
    ELSE "pass"

\* the three checks at the head of every performance-bin route: "422" when
\* one raises HTTPException(422, ...), "pass" otherwise
validateBins(interval, count) ==
    IF interval \notin {"1-day", "15-min"} THEN "422"
    ELSE IF interval = "1-day" /\ count > 8 THEN "422"
    ELSE IF interval = "15-min" /\ count > 96 THEN "422"
    ELSE "pass"

\* the answer of a route that does not catch: the exception of the client
\* call leaves the handler, a value is returned with 200; clear_ont_errors
\* raises HTTPException(500) on a false success flag
passOn(name, cr) ==
    IF cr.kind = "raise" THEN "unhandled"
    ELSE IF name = "clear_ont_errors" /\ cr.value = FALSE THEN "500"
    ELSE "200"

PerformanceRoute ==
    /\ \E name \in PerfRoutes, interval \in Intervals, count \in Counts, cr \in ClientResults :
        route' = IF validateBins(interval, count) = "422"
                 THEN [name |-> name, interval |-> interval, count |-> count,
                       called |-> FALSE, client |-> NoResult, status |-> "422"]
                 ELSE [name |-> name, interval |-> interval, count |-> count,
                       called |-> TRUE, client |-> cr, status |-> passOn(name, cr)]
    /\ UNCHANGED <<session_id, callVars, lifeVars, mids, env_call, ont_general>>

\* get_node_alarms (v1) and detect_rogues: no try block around the client call
PlainRoute ==
    /\ \E name \in PlainRoutes, cr \in ClientResults :
        route' = [name |-> name, interval |-> "none", count |-> 0, called |-> TRUE,
                  client |-> cr, status |-> passOn(name, cr)]
    /\ UNCHANGED <<session_id, callVars, lifeVars, mids, env_call, ont_general>>

\* the smart_* routes: "except Exception as e" returns
\* OntAction(success=False, additional_info=str(e))
SmartRoute ==
    /\ \E name \in SmartRoutes, cr \in ClientResults :
        route' = [name |-> name, interval |-> "none", count |-> 0, called |-> TRUE,
                  client |-> cr,
                  status |-> IF cr.kind = "raise" THEN "200 success=False" ELSE "200"]
    /\ UNCHANGED <<session_id, callVars, lifeVars, mids, env_call, ont_general>>

NextRoutes ==
    \/ PerformanceRoute
    \/ PlainRoute
    \/ SmartRoute

SpecRoutes == Init /\ [][NextRoutes]_vars

(* ---------------------------- environment ------------------------------ *)
\* app/services/environment.py: a variable looked up in the .env file
\* (dotenv_values) and in the OS environment (os.environ); a lookup gives
\* None for a name that is not defined and "" for one defined empty

\* variable names looked up, and the values either store may hold for one
EnvNames == {"CMS_IP", "CMS_USERNAME", "TEST_VAR", "VAR_NOT_PRESENT_IN_THE_ENVIRONMENT"}
OsValues == {NoneVal, "", "os value", "shared value"}
LocalValues == {NoneVal, "", "test value do not remove", "shared value"}

\* Python truthiness of a str | None, and "a or b"
Truthy(v) == v # NoneVal /\ v # ""
Or(a, b) == IF Truthy(a) THEN a ELSE b

\* get_env, given what os.environ.get and ENVIRONMENT.get return
get_env(global_env, local_env, prefer_local) ==
    IF ~Truthy(global_env) /\ ~Truthy(local_env) THEN Raise("EnvironmentVarNotExists")
    ELSE IF prefer_local THEN Return(Or(local_env, global_env))
    ELSE Return(Or(global_env, local_env))

GetEnv ==
    /\ \E name \in EnvNames, g \in OsValues, l \in LocalValues, prefer \in BOOLEAN :
        env_call' = [name |-> name, global_env |-> g, local_env |-> l,
                     prefer_local |-> prefer, result |-> get_env(g, l, prefer)]
    /\ UNCHANGED <<session_id, callVars, lifeVars, mids, route, ont_general>>

NextEnv == GetEnv

SpecEnv == Init /\ [][NextEnv]_vars

(* ---------------------------- OntGeneral -------------------------------- *)
\* app/models/ont.py: a pydantic BaseModel whose fields are declared
\* "str | None", "int | None" or "float | None".  Texts are sequences of
\* characters, integers are integers, floats are counted in tenths.
PyText(chars) == [type |-> "str", val |-> chars]
PyInt(n) == [type |-> "int", val |-> n]
PyFloat(tenths) == [type |-> "float", val |-> tenths]
\* a keyword argument that is not passed
Omitted == [type |-> "omitted", val |-> "omitted"]

DigitChars == <<"0", "1", "2", "3", "4", "5", "6", "7", "8", "9">>
IsDigit(c) == \E d \in 1..10 : DigitChars[d] = c
DigitOf(c) == (CHOOSE d \in 1..10 : DigitChars[d] = c) - 1
IsDigits(t) == Len(t) > 0 /\ \A i \in 1..Len(t) : IsDigit(t[i])

\* the number a run of digits denotes, and the digits of a natural number
RECURSIVE NatOf(_)
NatOf(t) == IF Len(t) = 0 THEN 0 ELSE 10 * NatOf(SubSeq(t, 1, Len(t) - 1)) + DigitOf(t[Len(t)])
RECURSIVE NatText(_)
NatText(n) == IF n < 10 THEN <<DigitChars[n + 1]>> ELSE Append(NatText(n \div 10), DigitChars[(n % 10) + 1])

\* int(text): an optional sign and digits
Signed(t) == Len(t) > 1 /\ t[1] \in {"-", "+"}
Unsigned(t) == IF Signed(t) THEN Tail(t) ELSE t
SignOf(t) == IF Signed(t) /\ t[1] = "-" THEN -1 ELSE 1
IsIntText(t) == IsDigits(Unsigned(t))
IntOf(t) == SignOf(t) * NatOf(Unsigned(t))

\* float(text): an int text, or digits, a point and one digit; in tenths
IsPointText(t) ==
    LET u == Unsigned(t)
    IN  Len(u) >= 3 /\ u[Len(u) - 1] = "." /\ IsDigit(u[Len(u)])
        /\ IsDigits(SubSeq(u, 1, Len(u) - 2))
IsFloatText(t) == IsIntText(t) \/ IsPointText(t)
FloatOf(t) ==
    LET u == Unsigned(t)
    IN  IF IsIntText(t) THEN 10 * IntOf(t)
        ELSE SignOf(t) * (10 * NatOf(SubSeq(u, 1, Len(u) - 2)) + DigitOf(u[Len(u)]))

\* str(n) of an int and of a float, and int(x) of a float (toward zero)
IntText(n) == IF n < 0 THEN <<"-">> \o NatText(-n) ELSE NatText(n)
FloatText(x) ==
    LET a == IF x < 0 THEN -x ELSE x
    IN  (IF x < 0 THEN <<"-">> ELSE <<>>) \o NatText(a \div 10) \o <<".", DigitChars[(a % 10) + 1]>>
Trunc(x) == IF x < 0 THEN -((-x) \div 10) ELSE x \div 10

Valid(v) == [ok |-> TRUE, v |-> v]
Invalid == [ok |-> FALSE, v |-> PyNone]

\* the validator of an int field that lets a text through as it is
int_validatorLax(v) ==
    IF v.type = "int" THEN Valid(v)
    ELSE IF v.type = "float" THEN Valid(PyInt(Trunc(v.val)))
    ELSE Valid(v)

\* pydantic's validators for str, int and float fields
str_validator(v) ==
    IF v.type = "str" THEN Valid(v)
    ELSE IF v.type = "int" THEN Valid(PyText(IntText(v.val)))
    ELSE Valid(PyText(FloatText(v.val)))
int_validator(v) ==
    IF v.type = "int" THEN Valid(v)
    ELSE IF v.type = "float" THEN Valid(PyInt(Trunc(v.val)))
    ELSE IF IsIntText(v.val) THEN Valid(PyInt(IntOf(v.val)))
    ELSE Invalid
float_validator(v) ==
    IF v.type = "float" THEN Valid(v)
    ELSE IF v.type = "int" THEN Valid(PyFloat(10 * v.val))
    ELSE IF IsFloatText(v.val) THEN Valid(PyFloat(FloatOf(v.val)))
    ELSE Invalid

\* three of the fields of OntGeneral with their declared types
DeclaredType ==
    [parent_node |-> "str", ont_port_color |-> "int", low_rx_opt_pwr_ne_thresh |-> "float"]
OntGeneralFields == DOMAIN DeclaredType

\* one field "T | None": an argument that is None or not passed gives None
validate(f, v) ==
    IF v.type \in {"NoneType", "omitted"} THEN Valid(PyNone)
    ELSE IF DeclaredType[f] = "str" THEN str_validator(v)
    ELSE IF DeclaredType[f] = "int" THEN int_validator(v)
    ELSE float_validator(v)

\* the values a caller may pass for a field
Supplied ==
    {PyNone, Omitted, PyText(<<"l", "a", "b">>), PyText(<<"0">>),
     PyText(<<"-", "3", "5", ".", "0">>),
     PyText(<<"n", "t", "o", " ", "a", "n", " ", "i", "n", "t">>),
     PyInt(1), PyFloat(-350), PyFloat(15)}

\* OntGeneral(**kwargs): the record, or ValidationError when a field fails
OntGeneral(kwargs) ==
    IF \A f \in OntGeneralFields : validate(f, kwargs[f]).ok
    THEN Return([f \in OntGeneralFields |-> validate(f, kwargs[f]).v])
    ELSE Raise("ValidationError")

ConstructOntGeneral ==
    /\ \E kwargs \in [OntGeneralFields -> Supplied] :
        ont_general' = [built |-> TRUE, kwargs |-> kwargs, result |-> OntGeneral(kwargs)]
    /\ UNCHANGED <<session_id, callVars, lifeVars, mids, route, env_call>>

NextModels == ConstructOntGeneral

SpecModels == Init /\ [][NextModels]_vars

(* ---------------------------- properties ------------------------------- *)
\* the last call is over and was the operation o
Finished(o) == op = o /\ pc = "idle" /\ result.kind # "none"
\* the reply tree of the i-th request of the last call, when its body parsed
Parsed(i) == i \in 1..Len(recv) /\ recv[i].exc = "none"

\* the items the server wrote on the pages of the last call, in order
RECURSIVE PagesFrom(_)
PagesFrom(i) == IF i > Len(recv) THEN <<>> ELSE recv[i].page \o PagesFrom(i + 1)
AllDelivered == \A i \in 1..Len(recv) : recv[i].exc = "none"

\* C1: a login whose reply parses stores and returns the reply's session id
\* when the auth-reply has result code "0" and a session id, and raises
\* CmsAuthenticationFailure for every other parsed reply.
C1_LoginStoresOrRejects ==
    (Finished("login") /\ Parsed(1)) =>
        LET t == recv[1].resp
            accepted == t.root = "Envelope" /\ t.ResultCode = "0" /\ t.SessionId # NoneVal
        IN  IF accepted
            THEN result.kind = "return" /\ result.value = t.SessionId
                 /\ session_id = t.SessionId
            ELSE result.kind = "raise" /\ result.exc = "CmsAuthenticationFailure"

\* a login replaced the session of an earlier login by the one just granted
C1_Witness ==
    /\ Finished("login") /\ Parsed(1)
    /\ result.kind = "return"
    /\ old_session \in SessionIds
    /\ session_id \in SessionIds \ {old_session}

\* C2: after a login that raised CmsAuthenticationFailure or
\* CmsCommunicationFailure the session id is the one held before the call,
\* and it is absent while no login has ever succeeded.
C2_FailedLoginKeepsSession ==
    /\ (Finished("login") /\ result.kind = "raise"
          /\ result.exc \in {"CmsAuthenticationFailure", "CmsCommunicationFailure"})
        => session_id = old_session
    /\ ~ever_logged_in => session_id = NoneVal

\* a rejected login whose reply carried a session id other than the held one
C2_Witness ==
    /\ Finished("login") /\ Parsed(1)
    /\ result.exc = "CmsAuthenticationFailure"
    /\ recv[1].resp.root = "Envelope"
    /\ recv[1].resp.SessionId \in SessionIds \ {old_session}
    /\ session_id = old_session

\* C3: a logout the server accepted leaves the client without a session id.
C3_LogoutClearsSession ==
    (Finished("logout") /\ result.kind = "return") => session_id = NoneVal

\* C4: logout raises CmsDeauthenticationFailure whenever the auth-reply
\* carries a result code other than "0", whether or not the client ever
\* logged in, and CmsCommunicationFailure when the connection to the server
\* cannot be made.
C4_LogoutFailures ==
    /\ (Finished("logout") /\ Parsed(1) /\ recv[1].resp.ResultCode \in ResultCodes \ {"0"})
        => (result.kind = "raise" /\ result.exc = "CmsDeauthenticationFailure")
    /\ (Finished("logout") /\ ~Parsed(1)
          /\ "ConnectionError" \in ExcClasses(recv[1].exc))
        => (result.kind = "raise" /\ result.exc = "CmsCommunicationFailure")

\* a client that never logged in sent "None" as session id and was refused
C4_Witness ==
    /\ Finished("logout") /\ Parsed(1)
    /\ ~ever_logged_in
    /\ sent[1].sessionid = "None"
    /\ recv[1].resp.ResultCode = "2"
    /\ result.exc = "CmsDeauthenticationFailure"

\* C5: every transport failure and every unparsable body makes login raise
\* CmsCommunicationFailure and nothing else.
C5_LoginTransportFailure ==
    (Finished("login") /\ ~Parsed(1)) =>
        (result.kind = "raise" /\ result.exc = "CmsCommunicationFailure")

\* C6: a non-auth operation one of whose requests failed at the transport
\* or came back unparsable raises CmsCommunicationFailure instead of
\* returning a record, a list or a boolean.
C6_NonAuthTransportFailure ==
    (pc = "idle" /\ op \notin {"none", "login", "logout"} /\ ~AllDelivered) =>
        (result.kind = "raise" /\ result.exc = "CmsCommunicationFailure")

\* a parsed reply with an rpc-reply node that does not acknowledge with ok
LacksOk(t) ==
    /\ t.root = "soapenv:Envelope"
    /\ t.rpc_reply.type # "missing"
    /\ ~(t.rpc_reply.type = "dict" /\ "ok" \in t.rpc_reply.keys)

\* C7 as stated: an action or edit-config whose rpc-reply lacks "ok" raises
\* CmsCommunicationFailure.
C7_NoOkRaises ==
    (op \in BoolOps /\ Parsed(1) /\ LacksOk(recv[1].resp)) =>
        (result.kind = "raise" /\ result.exc = "CmsCommunicationFailure")

\* C7 amended: an action or edit-config whose rpc-reply lacks "ok" returns
\* the boolean False and raises nothing.
C7_NoOkReturnsFalse ==
    (op \in BoolOps /\ Parsed(1) /\ LacksOk(recv[1].resp)) =>
        (result.kind = "return" /\ result.value = FALSE)

\* an edit-config answered by an rpc-reply without ok and without rpc-error
C7_Witness ==
    /\ op = "enable_ont" /\ Parsed(1)
    /\ recv[1].resp.root = "soapenv:Envelope"
    /\ recv[1].resp.rpc_reply.type = "dict"
    /\ recv[1].resp.rpc_reply.keys = {}
    /\ result.kind = "return" /\ result.value = FALSE

\* C8: when every page of an alarm listing is delivered, the call returns
\* the concatenation of all pages in delivery order, having sent one request
\* per page, the last page being the only one without the sentinel.
C8_PaginationConcatenates ==
    (op = "get_node_alarms" /\ pc = "idle" /\ AllDelivered) =>
        /\ result.kind = "return"
        /\ result.value = PagesFrom(1)
        /\ Len(sent) = Len(recv)
        /\ \A i \in 1..Len(recv) : recv[i].more <=> i < Len(recv)

\* C9: a page with the sentinel and zero items ends the listing with the
\* items accumulated so far.
C9_EmptySentinelPageTerminal ==
    (op = "get_node_alarms" /\ pc = "idle" /\ AllDelivered
        /\ recv[Len(recv)].more /\ recv[Len(recv)].page = <<>>) =>
        (result.kind = "return" /\ result.value = PagesFrom(1))

\* C10: when the first reply of the ONT listing carries the sentinel, a
\* second request follows.
C10_ListingPaginated ==
    (Finished("list_onts_on_gpon") /\ Parsed(1) /\ recv[1].more) => Len(sent) >= 2

\* C11: when a page request of the alarm listing fails at the transport or
\* comes back unparsable, the whole call fails with an error; no list is
\* returned.
C11_FailedPageFailsCall ==
    (op = "get_node_alarms" /\ pc = "idle" /\ Len(recv) > 0 /\ ~AllDelivered) =>
        (result.kind = "raise" /\ result.exc # "none")

\* C14: a non-auth operation called while the session id is absent does not
\* send the absent session id and then return normally.
C14_AbsentSessionRejected ==
    (pc = "idle" /\ op \notin {"none", "login", "logout"} /\ result.kind # "none"
        /\ old_session = NoneVal /\ sent[1].sessionid = Str(NoneVal)) =>
        result.kind # "return"

\* C20: no operation whose replies all parsed ends in an extraction error,
\* whichever nodes the reply trees omit.
C20_ExtractionNeverRaises ==
    (pc = "idle" /\ op # "none" /\ AllDelivered) =>
        result.exc \notin {"KeyError", "IndexError", "TypeError", "AttributeError"}

\* C12: no foreground request is built carrying an absent session id or a
\* session id for which the re-authentication task has already sent logout.
C12_SessionCriticalSection ==
    fg.built => (~fg.absent /\ ~fg.logged_out)

\* C13: every finished run of the re-authentication task attempted login,
\* whatever way its logout ended, and a login that failed left the run with
\* that failure.
C13_LogoutThenLogin ==
    run.done =>
        /\ run.login_attempted
        /\ run.login # "ok" => run.out = run.login

\* C15: of the sessions the client has obtained, at most one is live on the
\* server at any time.
C15_OneLiveSession ==
    Cardinality(obtained \cap server_live) <= 1

\* a later run obtained a second session after the first had been ended
C15_Witness ==
    /\ Cardinality(obtained) >= 2
    /\ "ok" = run.login
    /\ session_id \in server_live
    /\ obtained \cap server_live = {session_id}

\* C16: once startup is complete the client holds a session id a login
\* returned, and the logout of the shutdown handler carries the session id
\* held at that moment.
C16_LoginAtStartLogoutAtStop ==
    /\ started => session_id \in obtained
    /\ stopped => shutdown.sessionid = Str(session_id)

\* C17: no two envelopes built by the client carry the same message id.
C17_MessageIdsUnique ==
    \A i, j \in 1..Len(mids) : i # j => mids[i].message_id # mids[j].message_id

\* the port record a finished get_ont_port returned from a parsed reply
PortRead == Finished("get_ont_port") /\ Parsed(1) /\ result.kind = "return"

\* C18: each boolean field of the port record is true exactly when its raw
\* leaf is the text "true".
C18_BooleanIffLiteralTrue ==
    PortRead =>
        /\ result.value.disable_on_battery =
               PyBool(getPortLeaf(recv[1].resp, "disable-on-batt") = "true")
        /\ result.value.ppte_power_control =
               PyBool(getPortLeaf(recv[1].resp, "ppte-power-control") = "true")

\* the fields of the port record that come from a leaf
PortFields == {"admin", "disable_on_battery", "ppte_power_control"}
PortLeafOf(f) ==
    CASE f = "admin" -> "admin"
      [] f = "disable_on_battery" -> "disable-on-batt"
      [] f = "ppte_power_control" -> "ppte-power-control"

\* C19: every field of the port record whose leaf is missing from the reply
\* is None, the boolean fields included.
C19_MissingLeafIsNone ==
    PortRead =>
        \A f \in PortFields :
            getPortLeaf(recv[1].resp, PortLeafOf(f)) = NoneVal => result.value[f] = PyNone

\* C21: the namespace URI of an envelope tells auth envelopes from all
\* others: the auth envelopes carry the one URI, every other envelope a URI
\* different from it.
C21_NamespaceByKind ==
    \A i \in 1..Len(sent) : (sent[i].kind = "auth") <=> (sent[i].ns = NsXmlSoap)

\* C22: a performance-bin route calls the client exactly when interval is
\* "1-day" with count at most 8 or "15-min" with count at most 96, and
\* answers 422 otherwise.
C22_BinsValidated ==
    route.name \in PerfRoutes =>
        LET valid == \/ route.interval = "1-day" /\ route.count <= 8
                     \/ route.interval = "15-min" /\ route.count <= 96
        IN  /\ route.called <=> valid
            /\ ~valid => route.status = "422"

\* a request for nine 1-day bins was refused without a client call
C22_Witness ==
    /\ route.name = "clear_xdsl_port_performance_dsl"
    /\ route.interval = "1-day" /\ route.count = 9
    /\ ~route.called /\ route.status = "422"

C24_GetEnv ==
    env_call.name # "none" =>
        LET in_os == env_call.global_env # NoneVal
            in_file == env_call.local_env # NoneVal
        IN  /\ (env_call.result.kind = "raise") <=> (~in_os /\ ~in_file)
            /\ env_call.result.kind = "raise" =>
                   env_call.result.exc = "EnvironmentVarNotExists"
            /\ (in_os /\ in_file) =>
                   env_call.result.value = IF env_call.prefer_local
                                           THEN env_call.local_env
                                           ELSE env_call.global_env

\* a value that pydantic can turn into the declared type of field f
Castable(f, v) ==
    \/ v.type \in {"NoneType", "omitted", "int", "float"}
    \/ DeclaredType[f] = "str"
    \/ DeclaredType[f] = "int" /\ IsIntText(v.val)
    \/ DeclaredType[f] = "float" /\ IsFloatText(v.val)

\* C25: constructing an OntGeneral raises a validation error exactly when
\* some supplied value cannot be cast to its field's declared type;
\* otherwise a supplied None stays None, every other value has the declared
\* type, and a value already of that type is kept as it is.
C25_OntGeneralCasts ==
    ont_general.built =>
        LET kw == ont_general.kwargs
            res == ont_general.result
        IN  /\ (res.kind = "raise") <=> (\E f \in OntGeneralFields : ~Castable(f, kw[f]))
            /\ res.kind = "raise" => res.exc = "ValidationError"
            /\ res.kind = "return" =>
                 \A f \in OntGeneralFields :
                    IF kw[f].type \in {"NoneType", "omitted"}
                    THEN res.value[f].type = "NoneType"
                    ELSE /\ res.value[f].type = DeclaredType[f]
                         /\ kw[f].type = DeclaredType[f] => res.value[f].val = kw[f].val

\* the construction of the model test: a text kept, the text "0" cast to
\* the integer 0 and a None kept
C25_Witness ==
    /\ ont_general.built
    /\ ont_general.kwargs.parent_node.type = "str"
    /\ ont_general.kwargs.parent_node.val = <<"l", "a", "b">>
    /\ ont_general.kwargs.ont_port_color.type = "str"
    /\ ont_general.kwargs.ont_port_color.val = <<"0">>
    /\ ont_general.kwargs.low_rx_opt_pwr_ne_thresh.type = "NoneType"
    /\ ont_general.result.kind = "return"
    /\ ont_general.result.value.parent_node.val = <<"l", "a", "b">>
    /\ ont_general.result.value.ont_port_color.type = "int"
    /\ ont_general.result.value.ont_port_color.val = 0
    /\ ont_general.result.value.low_rx_opt_pwr_ne_thresh.type = "NoneType"

\* C26: the first request of an alarm listing carries empty action-args;
\* request k+1 exists only when response k was received with the sentinel,
\* and carries the type and id of the object of the last alarm of page k and
\* that alarm's alarm-type.
C26_CursorFromLastAlarm ==
    (op = "get_node_alarms" /\ Len(sent) > 0) =>
        /\ sent[1].args = EmptyArgs
        /\ \A k \in 1..(Len(sent) - 1) :
            /\ k <= Len(recv) /\ recv[k].exc = "none" /\ recv[k].more
            /\ recv[k].page # <<>>
            /\ LET last == recv[k].page[Len(recv[k].page)]
               IN  /\ sent[k + 1].args.cursor
                   /\ sent[k + 1].args.start_type = last.object.type
                   /\ sent[k + 1].args.start_id = last.object.id
                   /\ sent[k + 1].args.after_alarm = last.alarm_type

\* a second request that followed a page of two different alarms
C26_Witness ==
    /\ op = "get_node_alarms" /\ Len(sent) = 2
    /\ Len(recv[1].page) = 2
    /\ recv[1].page[1].alarm_type = "loss-of-pon"
    /\ recv[1].page[2].alarm_type = "low-rx-opt-pwr-ne"
    /\ sent[2].args.cursor
    /\ sent[2].args.start_type = "GponPort"
    /\ sent[2].args.after_alarm = "low-rx-opt-pwr-ne"

\* C27: no two extracted fields of the record get_ont returned were read
\* from the same leaf path.
C27_FieldsOneToOne ==
    (Finished("get_ont") /\ result.kind = "return") =>
        \A f, g \in DOMAIN OntRecordPaths :
            f # g => OntRecordPaths[f] # OntRecordPaths[g]

\* C28: every step that changes the stored session id is a login that
\* returned; logout, a failed login and every other operation leave it as
\* it was.
C28_OnlyLoginWritesSession ==
    [][session_id' # session_id => (op' = "login" /\ result'.kind = "return"
                                     /\ session_id' = result'.value)]_vars

\* a logout the server accepted, after which the client still holds the id
C28_Witness ==
    /\ Finished("logout") /\ result.kind = "return"
    /\ old_session \in SessionIds
    /\ session_id = old_session

\* C29: the selector an xdsl read sent carries the shelf, card and port
\* numbers of the record it returned, which are the ones the caller passed.
C29_SelectorCarriesKeys ==
    (op \in {"get_xdsl_port", "get_xdsl_status"} /\ pc = "idle" /\ result.kind = "return") =>
        /\ sent[1].args.shelf = result.value.shelf
        /\ sent[1].args.card = result.value.card
        /\ sent[1].args.dslport = result.value.interface

====
